---- MODULE Spec2Model ----
(***************************************************************************)
(* Frame orchestration of wgpu-openxr-example: the winit event-loop        *)
(* closure of main.rs driving XrState (xr.rs) against an OpenXR runtime.   *)
(*                                                                         *)
(* The runtime is the environment.  Its session follows the OpenXR session *)
(* life cycle and queues one event per state change; any runtime call may  *)
(* fail.  Every runtime call the program issues during a tick is recorded  *)
(* in `log`, in program order, together with the value session_running had *)
(* and the number of events still queued when the call was issued.         *)
(***************************************************************************)
EXTENDS Integers, Sequences, FiniteSets, TLC

\* ------------------------------------------------------------------ bounds
MaxQueue == 2      \* events the runtime may hold queued at once
MaxEvents == 3     \* events (runtime events, window resizes) in one run
MaxTicks == 3      \* MainEventsCleared ticks in one run
NumImages == 2     \* images of the compositor swapchain (chosen by the runtime)

\* --------------------------------------------------------- program constants
VIEW_COUNT == 2

VARIABLES
    pc,               \* position of the process: start / idle / encode / submit / exited / failed / panicked
    xr_state,         \* main.rs xr_state: "None" (desktop) or "Some"
    init_result,      \* outcome of construction: "" / "Ok" / "Err" / "Panic"
    init_input,       \* the capabilities the runtime reported to initialize_with_wgpu
    control_flow,     \* winit ControlFlow: "Poll" or "Exit"
    session_running,  \* XrState::session_running
    swapchain,        \* XrState::swapchain: "None" or "Some"
    xr_frame_state,   \* main.rs xr_frame_state of the tick: "None" / "Render" / "Skip"
    post_frame_data,  \* PostFrameData returned by post_frame
    image_index,      \* index returned by the last acquire_image, -1 if none
    rt,               \* runtime side: session state, queued events, frame/image protocol state
    log,              \* calls issued in the current tick
    gpu,              \* main.rs config, depth_texture, rt_texture, blit_state, camera_state
    hist,             \* history: events polled, call counts, errors
    call              \* a function of the crate applied on its own: arguments and result

vars == << pc, xr_state, init_result, init_input, control_flow, session_running,
           swapchain, xr_frame_state, post_frame_data, image_index, rt, log, gpu, hist,
           call >>

\* The variables of the running program.
program_vars ==
    << pc, xr_state, init_result, init_input, control_flow, session_running,
       swapchain, xr_frame_state, post_frame_data, image_index, rt, log, gpu, hist >>

\* No function is applied on its own while the program runs.
NoCall == [ f |-> "none" ]

\* --------------------------------------------------------------- the runtime
SessionEvents == { "READY", "SYNCHRONIZED", "VISIBLE", "FOCUSED", "STOPPING",
                   "IDLE", "EXITING", "LOSS_PENDING" }
OtherEvents == { "InstanceLossPending", "EventsLost" }

\* The OpenXR session life cycle: the state changes the runtime may announce.
RtSuccessors(s, running) ==
    ( CASE s = "IDLE" -> IF running THEN {} ELSE { "READY", "EXITING" }
        [] s = "READY" -> IF running THEN { "SYNCHRONIZED" } ELSE {}
        [] s = "SYNCHRONIZED" -> { "VISIBLE", "STOPPING" }
        [] s = "VISIBLE" -> { "FOCUSED", "SYNCHRONIZED" }
        [] s = "FOCUSED" -> { "VISIBLE" }
        [] s = "STOPPING" -> IF running THEN {} ELSE { "IDLE" }
        [] OTHER -> {} )
    \cup (IF s \in { "EXITING", "LOSS_PENDING" } THEN {} ELSE { "LOSS_PENDING" })

EmptyPostFrameData == [ views |-> << >>, left_hand |-> FALSE, right_hand |-> FALSE ]

EmptyHist == [ polled |-> << >>, begins |-> 0, ends |-> 0, ticks |-> 0, frames |-> 0,
               events |-> 0, exit_polled |-> FALSE, panic_site |-> "", err_from |-> "",
               creates |-> 0, resizes |-> 0 ]

\* ------------------------------------------------------------ glam values
\* glam::quat(x, y, z, w)
quat(x, y, z, w) == [ x |-> x, y |-> y, z |-> z, w |-> w ]

\* glam::vec3(x, y, z)
vec3(x, y, z) == [ x |-> x, y |-> y, z |-> z ]

\* Quat * Quat (Hamilton product)
quat_mul(a, b) ==
    quat(a.w * b.x + a.x * b.w + a.y * b.z - a.z * b.y,
         a.w * b.y - a.x * b.z + a.y * b.w + a.z * b.x,
         a.w * b.z + a.x * b.y - a.y * b.x + a.z * b.w,
         a.w * b.w - a.x * b.x - a.y * b.y - a.z * b.z)

\* Quat::from_rotation_x(180.0f32.to_radians()): (sin 90, 0, 0, cos 90)
from_rotation_x_180 == quat(1, 0, 0, 0)

\* Quat * Vec3: the vector rotated by a unit quaternion, q (v, 0) q^-1.
quat_rotate(q, v) ==
    LET r == quat_mul(quat_mul(q, quat(v.x, v.y, v.z, 0)), quat(-q.x, -q.y, -q.z, q.w))
    IN  vec3(r.x, r.y, r.z)

\* Vec3 + Vec3
vec3_add(a, b) == vec3(a.x + b.x, a.y + b.y, a.z + b.z)

\* Quat::IDENTITY
Quat_IDENTITY == quat(0, 0, 0, 1)

\* Quat::from_rotation_y(angle) = (0, sin(angle / 2), 0, cos(angle / 2)), for
\* an angle of k half turns.
from_rotation_y(k) ==
    CASE k % 4 = 0 -> quat(0, 0, 0, 1)
      [] k % 4 = 1 -> quat(0, 1, 0, 0)
      [] k % 4 = 2 -> quat(0, 0, 0, -1)
      [] OTHER -> quat(0, -1, 0, 0)

\* Mat4::from(Affine3A::from_scale_rotation_translation(Vec3::ONE, r, t))
\* .to_cols_array(): the rotated axes and the translation, column by column.
transform_cols_array(t, r) ==
    LET x_axis == quat_rotate(r, vec3(1, 0, 0))
        y_axis == quat_rotate(r, vec3(0, 1, 0))
        z_axis == quat_rotate(r, vec3(0, 0, 1))
    IN  << x_axis.x, x_axis.y, x_axis.z, 0,
           y_axis.x, y_axis.y, y_axis.z, 0,
           z_axis.x, z_axis.y, z_axis.z, 0,
           t.x, t.y, t.z, 1 >>

\* ------------------------------------------------------------- GPU resources
\* window.inner_size() at start-up and the sizes later Resized events carry.
InitialSize == [ width |-> 2, height |-> 2 ]
Sizes == { [ width |-> 3, height |-> 2 ], [ width |-> 2, height |-> 3 ] }

\* Texture::new_rt_texture: a fresh texture (id) of the surface size, 2 layers.
new_rt_texture(config, id) ==
    [ id |-> id, width |-> config.width, height |-> config.height, layers |-> 2 ]

\* Texture::new_depth_texture
new_depth_texture(config, id) ==
    [ id |-> id, width |-> config.width, height |-> config.height, layers |-> 2 ]

\* BlitState::create_bind_group: the bind group holds the view it is given.
create_bind_group(render_target_view, sampler) ==
    [ view |-> render_target_view, sampler |-> sampler ]

\* BlitState::new
BlitState_new(render_target_view) ==
    LET sampler == [ address_mode |-> "ClampToEdge", mag_filter |-> "Linear",
                     min_filter |-> "Nearest", mipmap_filter |-> "Nearest" ]
    IN  [ sampler |-> sampler, bind_group |-> create_bind_group(render_target_view, sampler) ]

\* A mutant: the bind group is kept on a resize.
BlitState_resize_keeps_bind_group(blit_state, render_target_view) == blit_state

\* A mutant: a resize also replaces the sampler, with the filters exchanged.
BlitState_resize_new_sampler(blit_state, render_target_view) ==
    LET sampler == [ blit_state.sampler EXCEPT !.mag_filter = "Nearest",
                                               !.min_filter = "Linear" ]
    IN  [ sampler |-> sampler, bind_group |-> create_bind_group(render_target_view, sampler) ]

\* BlitState::resize
BlitState_resize(blit_state, render_target_view) ==
    [ blit_state EXCEPT
        !.bind_group = create_bind_group(render_target_view, blit_state.sampler) ]

\* A mutant: a resize also moves the far plane.
PerspectiveCamera_resize_moves_far_plane(camera, inner_size) ==
    [ camera EXCEPT !.aspect_ratio = << inner_size.width, inner_size.height >>,
                    !.z_far = << inner_size.width, 1 >> ]

\* PerspectiveCamera::resize: aspect_ratio = width / height, kept as the pair.
PerspectiveCamera_resize(camera, inner_size) ==
    [ camera EXCEPT !.aspect_ratio = << inner_size.width, inner_size.height >> ]

\* CameraState::new: the PerspectiveCamera it starts with.  fov_y_rad is kept
\* in degrees, z_near and z_far as fractions (0.05 and 1000.0).
CameraState_new(inner_size) ==
    [ eye |-> vec3(0, 0, 0),
      target |-> vec3(0, 0, 1),
      up |-> vec3(0, 1, 0),
      aspect_ratio |-> << inner_size.width, inner_size.height >>,
      fov_y_rad |-> 90,
      z_near |-> << 5, 100 >>,
      z_far |-> << 1000, 1 >> ]

\* MainState::new: the three instances (translation, rotation).
InitialInstances ==
    << << vec3(0, 0, 1), Quat_IDENTITY >>,
       << vec3(1, 0, 2), Quat_IDENTITY >>,
       << vec3(-1, 0, 2), Quat_IDENTITY >> >>

\* MainState::instances_to_data: the transform of every instance, flattened.
instances_to_data(instances) ==
    transform_cols_array(instances[1][1], instances[1][2])
        \o transform_cols_array(instances[2][1], instances[2][2])
        \o transform_cols_array(instances[3][1], instances[3][2])

\* A mutant: the instance buffer is not written.
upload_instances_skipped(main_state) == main_state

\* MainState::upload_instances: queue.write_buffer(instance_buffer, 0, data)
upload_instances(main_state) ==
    [ main_state EXCEPT !.instance_buffer = instances_to_data(main_state.instances) ]

\* cos(t) - 1 for the time t the k-th tick reads from the clock: a value of
\* [-2, 0], taken on the integer grid.
CosMinusOne(k) == 0 - (k % 3)

\* The per-frame updates of the frame body at the k-th tick: eye.z follows
\* the clock, instances[0] is turned about Y (the angle t / PI sampled at k
\* half turns) and the instances are uploaded.
Animate(g, k) ==
    upload_instances([ g EXCEPT !.camera.eye.z = CosMinusOne(k),
                                !.instances[1][2] = from_rotation_y(k) ])

\* The resources main creates before the event loop runs.
InitialGpu ==
    LET config == InitialSize
        rt_tex == new_rt_texture(config, 0)
    IN  [ config |-> config,
          depth_texture |-> new_depth_texture(config, 0),
          rt_texture |-> rt_tex,
          blit_state |-> BlitState_new(rt_tex.id),
          camera |-> CameraState_new(InitialSize),
          instances |-> InitialInstances,
          instance_buffer |-> instances_to_data(InitialInstances),
          window |-> InitialSize ]

ProgramInit ==
    /\ pc = "start"
    /\ xr_state = "None"
    /\ init_result = ""
    /\ init_input = [ used |-> FALSE ]
    /\ control_flow = "Poll"
    /\ session_running = FALSE
    /\ swapchain = "None"
    /\ xr_frame_state = "None"
    /\ post_frame_data = EmptyPostFrameData
    /\ image_index = -1
    /\ rt = [ state |-> "IDLE", running |-> FALSE, queue |-> << >>,
              begun |-> FALSE, acquired |-> 0 ]
    /\ log = << >>
    /\ gpu = InitialGpu
    /\ hist = EmptyHist

Init ==
    /\ ProgramInit
    /\ call = NoCall

\* ------------------------------------------------------- XrState construction
VkTargetVersion == [ major |-> 1, minor |-> 1 ]

VersionLess(a, b) == a.major < b.major \/ (a.major = b.major /\ a.minor < b.minor)

InitErrAts == { "none", "enumerate_extensions", "create_instance",
                "vulkan_graphics_device", "create_session" }

InitInputs ==
    [ used : { TRUE },
      err_at : InitErrAts,                  \* the `?` call that fails, if any
      ext : BOOLEAN,                        \* available_extensions.khr_vulkan_enable2
      min : { [ major |-> 1, minor |-> 0 ], [ major |-> 1, minor |-> 2 ] },
      max_major : { 0, 1 },                 \* reqs.max_api_version_supported.major()
      dev : { [ major |-> 1, minor |-> 0 ], [ major |-> 1, minor |-> 1 ] } ]

\* A capability the program requires is missing.
NegotiationFails(inp) ==
    \/ ~inp.ext
    \/ VersionLess(VkTargetVersion, inp.min)
    \/ VkTargetVersion.major > inp.max_major
    \/ VersionLess(inp.dev, VkTargetVersion)

\* A mutant: the check of the runtime's Vulkan version range is left out.
initialize_with_wgpu_no_range_check(inp) ==
    IF inp.err_at = "enumerate_extensions" THEN "Err"
    ELSE IF ~inp.ext THEN "Panic"
    ELSE IF inp.err_at = "create_instance" THEN "Err"
    ELSE IF inp.err_at = "vulkan_graphics_device" THEN "Err"
    ELSE IF VersionLess(inp.dev, VkTargetVersion) THEN "Panic"
    ELSE IF inp.err_at = "create_session" THEN "Err"
    ELSE "Ok"

\* XrState::initialize_with_wgpu, as far as its outcome goes: "Ok", an error
\* returned with `?` ("Err"), or a panic of assert!/panic! ("Panic").
initialize_with_wgpu(inp) ==
    IF inp.err_at = "enumerate_extensions" THEN "Err"
    ELSE IF ~inp.ext THEN "Panic"
    ELSE IF inp.err_at = "create_instance" THEN "Err"
    ELSE IF \/ VersionLess(VkTargetVersion, inp.min)
            \/ VkTargetVersion.major > inp.max_major THEN "Panic"
    ELSE IF inp.err_at = "vulkan_graphics_device" THEN "Err"
    ELSE IF VersionLess(inp.dev, VkTargetVersion) THEN "Panic"
    ELSE IF inp.err_at = "create_session" THEN "Err"
    ELSE "Ok"

\* ------------------------------------------------------------ call recording
\* The working state of one XrState method: the XrState fields it touches, the
\* runtime side, the log, the number n of runtime calls issued by this method
\* so far, its result res ("" while it is still executing) and the locals
\* left_hand / right_hand (hands: TRUE for Some).
Working(fs) ==
    [ running |-> session_running, swapchain |-> swapchain, fs |-> fs,
      data |-> post_frame_data, image |-> image_index, rt |-> rt, log |-> log,
      gpu |-> gpu, hist |-> hist, n |-> 0, res |-> "",
      hands |-> << FALSE, FALSE >> ]

\* XrState.views: the view configuration views enumerated at construction
\* (recommended image rect per eye).
XrState_views ==
    [ i \in 1 .. VIEW_COUNT |->
        [ recommended_image_rect_width |-> 4, recommended_image_rect_height |-> 3 ] ]

\* Swapchain.resolution, taken from views[0] when the swapchain is created.
resolution ==
    [ width |-> XrState_views[1].recommended_image_rect_width,
      height |-> XrState_views[1].recommended_image_rect_height ]

\* What locate_views returns for the frame begun as the f-th: one pose and one
\* field of view per eye, different for every eye and frame.
LocatedViews(f) ==
    [ i \in 1 .. VIEW_COUNT |->
        [ pose |-> << "pose", f, i - 1 >>, fov |-> << "fov", f, i - 1 >> ] ]

\* views[i] where the slice has it (IndexViews covers the slice that has not).
ViewAt(views, i) ==
    IF i + 1 \in DOMAIN views THEN views[i + 1]
    ELSE [ pose |-> << "pose", -1, i >>, fov |-> << "fov", -1, i >> ]

\* A mutant: both projection views are built from views[0] and layer 0.
ProjectionLayers_same_eye(views) ==
    << [ space |-> "stage",
         views |-> [ i \in 1 .. VIEW_COUNT |->
                       [ pose |-> ViewAt(views, 0).pose,
                         fov |-> ViewAt(views, 0).fov,
                         sub_image |->
                            [ swapchain |-> "handle", image_array_index |-> 0,
                              image_rect |->
                                 [ offset |-> [ x |-> 0, y |-> 0 ],
                                   extent |-> [ width |-> resolution.width,
                                                height |-> resolution.height ] ] ] ] ] ] >>

\* The layers of the end-frame call of post_queue_submit, built from the views
\* it is passed: one projection layer in stage space with one view per eye.
ProjectionLayers(views) ==
    << [ space |-> "stage",
         views |-> [ i \in 1 .. VIEW_COUNT |->
                       [ pose |-> ViewAt(views, i - 1).pose,
                         fov |-> ViewAt(views, i - 1).fov,
                         sub_image |->
                            [ swapchain |-> "handle", image_array_index |-> i - 1,
                              image_rect |->
                                 [ offset |-> [ x |-> 0, y |-> 0 ],
                                   extent |-> [ width |-> resolution.width,
                                                height |-> resolution.height ] ] ] ] ] ] >>

\* src is the colour view a pass reads (blit) or writes (scene), depth the depth
\* view the scene pass writes, layers the composition layers of an end-frame
\* call (idx 0: the `&[]` of a skipped frame, idx 1: post_queue_submit).
Entry(st, op, idx, arg) ==
    [ op |-> op, idx |-> idx, arg |-> arg, run |-> st.running,
      pending |-> Len(st.rt.queue),
      layers |-> IF op = "frame_end" /\ idx = 1 THEN ProjectionLayers(st.data.views)
                 ELSE << >>,
      src |-> CASE op \in { "blit_desktop", "blit_xr" } -> st.gpu.blit_state.bind_group.view
                [] op = "encode_scene" -> st.gpu.rt_texture.id
                [] OTHER -> -1,
      depth |-> IF op = "encode_scene" THEN st.gpu.depth_texture.id ELSE -1 ]

\* Something the program does that is no runtime call (it cannot fail).
Note(st, op, idx) ==
    IF st.res # "" THEN st ELSE [ st EXCEPT !.log = Append(@, Entry(st, op, idx, "")) ]

\* A runtime call: recorded, and failing when it is the fail-th call of the
\* method or when `refused` (the runtime rejects it); on failure the method
\* ends with on_fail ("Err" for `?`, "Panic" for unwrap()).
Call(st, op, idx, arg, fail, refused, on_fail) ==
    IF st.res # "" THEN st
    ELSE LET c == [ st EXCEPT !.log = Append(@, Entry(st, op, idx, arg)), !.n = @ + 1 ]
         IN  IF c.n = fail \/ refused
             THEN [ c EXCEPT !.res = on_fail,
                             !.hist.panic_site = IF on_fail = "Panic" THEN "xr.rs" ELSE @ ]
             ELSE c

\* An update of the working state that happens only if the method still runs.
Then(st, new) == IF st.res # "" THEN st ELSE new

\* ------------------------------------------------------- XrState::pre_frame
\* A mutant: STOPPING is handled without ending the session.
HandleEvent_no_session_end(st, e, fail) ==
    CASE e = "READY" ->
            LET b == Call([ st EXCEPT !.hist.begins = @ + 1 ],
                          "session_begin", -1, "", fail, FALSE, "Err")
            IN  Then(b, [ b EXCEPT !.running = TRUE, !.rt.running = TRUE ])
      [] e = "STOPPING" -> [ st EXCEPT !.running = FALSE ]
      [] e \in { "EXITING", "LOSS_PENDING" } ->
            [ st EXCEPT !.res = "None", !.hist.exit_polled = TRUE ]
      [] e = "InstanceLossPending" -> [ st EXCEPT !.res = "None" ]
      [] OTHER -> st

\* A mutant: session_running is assigned before the runtime call is made.
HandleEvent_flag_before_call(st, e, fail) ==
    CASE e = "READY" ->
            LET b == Call([ st EXCEPT !.hist.begins = @ + 1, !.running = TRUE ],
                          "session_begin", -1, "", fail, FALSE, "Err")
            IN  Then(b, [ b EXCEPT !.rt.running = TRUE ])
      [] e = "STOPPING" ->
            LET x == Call([ st EXCEPT !.hist.ends = @ + 1, !.running = FALSE ],
                          "session_end", -1, "", fail, FALSE, "Err")
            IN  Then(x, [ x EXCEPT !.rt.running = FALSE ])
      [] e \in { "EXITING", "LOSS_PENDING" } ->
            [ st EXCEPT !.res = "None", !.hist.exit_polled = TRUE ]
      [] e = "InstanceLossPending" -> [ st EXCEPT !.res = "None" ]
      [] OTHER -> st

\* The match on one polled event.
HandleEvent(st, e, fail) ==
    CASE e = "READY" ->
            LET b == Call([ st EXCEPT !.hist.begins = @ + 1 ],
                          "session_begin", -1, "", fail, FALSE, "Err")
            IN  Then(b, [ b EXCEPT !.running = TRUE, !.rt.running = TRUE ])
      [] e = "STOPPING" ->
            LET x == Call([ st EXCEPT !.hist.ends = @ + 1 ],
                          "session_end", -1, "", fail, FALSE, "Err")
            IN  Then(x, [ x EXCEPT !.running = FALSE, !.rt.running = FALSE ])
      [] e \in { "EXITING", "LOSS_PENDING" } ->
            [ st EXCEPT !.res = "None", !.hist.exit_polled = TRUE ]
      [] e = "InstanceLossPending" -> [ st EXCEPT !.res = "None" ]
      [] OTHER -> st

\* `while let Some(event) = poll_event()? { ... }`: res becomes "Drained" when
\* poll_event reports no event, "Err" or "None" when the loop is left early.
RECURSIVE Drain(_, _)
Drain(st, fail) ==
    LET p == Call(st, "poll_event", -1, "", fail, FALSE, "Err")
    IN  IF p.res # "" THEN p
        ELSE IF p.rt.queue = << >> THEN [ p EXCEPT !.res = "Drained" ]
        ELSE LET e == Head(p.rt.queue)
                 h == HandleEvent([ p EXCEPT !.rt.queue = Tail(@),
                                             !.hist.polled = Append(@, e) ], e, fail)
             IN  IF h.res # "" THEN h ELSE Drain(h, fail)

\* A mutant: one event is polled per call (`if let` for `while let`).
PollOnce(st, fail) ==
    LET p == Call(st, "poll_event", -1, "", fail, FALSE, "Err")
    IN  IF p.res # "" THEN p
        ELSE IF p.rt.queue = << >> THEN [ p EXCEPT !.res = "Drained" ]
        ELSE LET e == Head(p.rt.queue)
                 h == HandleEvent([ p EXCEPT !.rt.queue = Tail(@),
                                             !.hist.polled = Append(@, e) ], e, fail)
             IN  IF h.res # "" THEN h ELSE [ h EXCEPT !.res = "Drained" ]

\* The frame-timing calls that end pre_frame when the session runs.
WaitAndBegin(d, fail, should_render) ==
    LET w == Call([ d EXCEPT !.res = "" ], "frame_wait", -1, "", fail, FALSE, "Err")
        b == Call(w, "frame_begin", -1, "", fail, FALSE, "Err")
    IN  Then(b, [ b EXCEPT !.res = "Some", !.rt.begun = TRUE,
                           !.hist.frames = @ + 1,
                           !.fs = IF should_render THEN "Render" ELSE "Skip" ])

pre_frame_poll_once(st, fail, should_render) ==
    LET d == PollOnce(st, fail)
    IN  IF d.res # "Drained" THEN d
        ELSE IF ~d.running THEN [ d EXCEPT !.res = "None" ]
        ELSE WaitAndBegin(d, fail, should_render)

\* A mutant: the frame is waited for and begun whether or not the session runs.
pre_frame_no_running_check(st, fail, should_render) ==
    LET d == Drain(st, fail)
    IN  IF d.res # "Drained" THEN d
        ELSE WaitAndBegin(d, fail, should_render)

\* XrState::pre_frame: res is "Some" (with fs the frame state), "None" or "Err".
pre_frame(st, fail, should_render) ==
    LET d == Drain(st, fail)
    IN  IF d.res # "Drained" THEN d
        ELSE IF ~d.running THEN [ d EXCEPT !.res = "None" ]
        ELSE WaitAndBegin(d, fail, should_render)

\* ------------------------------------------------------ XrState::post_frame
PostFrameInputs ==
    [ left : BOOLEAN, right : BOOLEAN,      \* is_active of the two pose actions
      image : 0 .. NumImages - 1 ]          \* the index acquire_image returns

\* A mutant: the space is located and the pose returned whatever is_active says.
locate_hand_pose_ignores_active(st, hand, active, fail) ==
    LET a == Call(st, "is_active", hand, IF active THEN "active" ELSE "inactive",
                  fail, FALSE, "Err")
        l == Call(a, "locate_space", hand, "", fail, FALSE, "Err")
    IN  Then(l, [ l EXCEPT !.hands[hand + 1] = TRUE ])

\* `if action.is_active()? { Ok(Some(openxr_pose_to_glam(space.locate()?.pose))) }
\*  else { Ok(None) }`; hand 0 is the left hand, 1 the right.
locate_hand_pose(st, hand, active, fail) ==
    LET a == Call(st, "is_active", hand, IF active THEN "active" ELSE "inactive",
                  fail, FALSE, "Err")
    IN  IF active
        THEN LET l == Call(a, "locate_space", hand, "", fail, FALSE, "Err")
             IN  Then(l, [ l EXCEPT !.hands[hand + 1] = TRUE ])
        ELSE Then(a, [ a EXCEPT !.hands[hand + 1] = FALSE ])

\* `self.swapchain.get_or_insert_with(|| ...)`
get_or_insert_swapchain(st, fail) ==
    IF st.swapchain = "Some" THEN st
    ELSE LET c == Call(st, "create_swapchain", -1, "", fail, FALSE, "Panic")
             e == Call(c, "enumerate_images", -1, "", fail, FALSE, "Panic")
         IN  Then(e, [ e EXCEPT !.swapchain = "Some", !.hist.creates = @ + 1 ])

\* The should_render = false branch.
EndSkippedFrame(st, fail) ==
    LET e == Call(st, "frame_end", 0, "", fail, ~st.rt.begun, "Err")
    IN  Then(e, [ e EXCEPT !.res = "Ok", !.rt.begun = FALSE, !.data = EmptyPostFrameData ])

\* A mutant: the image is rendered to before it has been waited for, and the
\* buffer is picked by a fixed index.
AcquireWaitBlit_unordered(st, fail, inp) ==
    LET a == Call(st, "acquire_image", inp.image, "", fail, FALSE, "Panic")
        i == Then(a, [ a EXCEPT !.image = inp.image, !.rt.acquired = @ + 1 ])
        b == Note(i, "blit_xr", 0)
    IN  Call(b, "wait_image", i.image, "INFINITE", fail, FALSE, "Panic")

\* acquire_image().unwrap(), wait_image(INFINITE).unwrap(), then the blit into
\* swapchain.buffers[image_index].
AcquireWaitBlit(st, fail, inp) ==
    LET a == Call(st, "acquire_image", inp.image, "", fail, FALSE, "Panic")
        i == Then(a, [ a EXCEPT !.image = inp.image, !.rt.acquired = @ + 1 ])
        w == Call(i, "wait_image", i.image, "INFINITE", fail, FALSE, "Panic")
    IN  Note(w, "blit_xr", w.image)

\* A mutant: a skipped frame is not ended by post_frame.
post_frame_skip_without_end(st, fail, inp) ==
    IF st.fs = "Skip" THEN [ st EXCEPT !.res = "Ok", !.data = EmptyPostFrameData ]
    ELSE LET s == get_or_insert_swapchain(st, fail)
             y == Call(s, "sync_actions", -1, "", fail, FALSE, "Err")
             l == locate_hand_pose(y, 0, inp.left, fail)
             r == locate_hand_pose(l, 1, inp.right, fail)
             v == Call(r, "locate_views", -1, "", fail, FALSE, "Err")
             b == AcquireWaitBlit(v, fail, inp)
         IN  Then(b, [ b EXCEPT !.res = "Ok",
                                !.data = [ views |-> LocatedViews(b.hist.frames),
                                           left_hand |-> b.hands[1],
                                           right_hand |-> b.hands[2] ] ])

\* XrState::post_frame: res is "Ok", "Err" or "Panic".
post_frame(st, fail, inp) ==
    IF st.fs = "Skip" THEN EndSkippedFrame(st, fail)
    ELSE LET s == get_or_insert_swapchain(st, fail)
             y == Call(s, "sync_actions", -1, "", fail, FALSE, "Err")
             l == locate_hand_pose(y, 0, inp.left, fail)
             r == locate_hand_pose(l, 1, inp.right, fail)
             v == Call(r, "locate_views", -1, "", fail, FALSE, "Err")
             b == AcquireWaitBlit(v, fail, inp)
         IN  Then(b, [ b EXCEPT !.res = "Ok",
                                !.data = [ views |-> LocatedViews(b.hist.frames),
                                           left_hand |-> b.hands[1],
                                           right_hand |-> b.hands[2] ] ])

\* ------------------------------------------------ XrState::post_queue_submit
\* `views[0]`, `views[1]` on the slice the caller passes.
IndexViews(st) ==
    IF st.res = "" /\ Len(st.data.views) < VIEW_COUNT
    THEN [ st EXCEPT !.res = "Panic", !.hist.panic_site = "xr.rs index" ]
    ELSE st

\* A mutant: the layer is built from defaulted views when none are passed and
\* a failing release is ignored.
post_queue_submit_unchecked(st, fail, lenient) ==
    IF st.swapchain = "Some"
    THEN LET r == Call(st, "release_image", -1, "", 0, FALSE, "Panic")
             d == Then(r, [ r EXCEPT !.rt.acquired = IF @ > 0 THEN @ - 1 ELSE 0 ])
             e == Call(d, "frame_end", 1, "", fail, FALSE, "Err")
         IN  Then(e, [ e EXCEPT !.res = "Ok", !.rt.begun = FALSE ])
    ELSE [ st EXCEPT !.res = "Ok" ]

\* A mutant: the frame is ended before the image is released.
post_queue_submit_end_before_release(st, fail, lenient) ==
    IF st.swapchain = "Some"
    THEN LET i == IndexViews(st)
             e == Call(i, "frame_end", 1, "", fail, ~i.rt.begun, "Err")
             f == Then(e, [ e EXCEPT !.rt.begun = FALSE ])
             r == Call(f, "release_image", -1, "", fail,
                       st.rt.acquired = 0 /\ ~lenient, "Panic")
         IN  Then(r, [ r EXCEPT !.res = "Ok",
                                !.rt.acquired = IF @ > 0 THEN @ - 1 ELSE 0 ])
    ELSE [ st EXCEPT !.res = "Ok" ]

\* XrState::post_queue_submit.  A release_image with no image acquired is
\* rejected by the runtime unless it is lenient.
post_queue_submit(st, fail, lenient) ==
    IF st.swapchain = "Some"
    THEN LET r == Call(st, "release_image", -1, "", fail,
                       st.rt.acquired = 0 /\ ~lenient, "Panic")
             d == Then(r, [ r EXCEPT !.rt.acquired = IF @ > 0 THEN @ - 1 ELSE 0 ])
             i == IndexViews(d)
             e == Call(i, "frame_end", 1, "", fail, ~i.rt.begun, "Err")
         IN  Then(e, [ e EXCEPT !.res = "Ok", !.rt.begun = FALSE ])
    ELSE [ st EXCEPT !.res = "Ok" ]

\* ------------------------------------------------------------ main.rs: main
\* The working state written back to the variables.
Commit(st, h) ==
    /\ session_running' = st.running
    /\ swapchain' = st.swapchain
    /\ post_frame_data' = st.data
    /\ image_index' = st.image
    /\ rt' = st.rt
    /\ log' = st.log
    /\ hist' = h

\* A method call followed by .unwrap(): an Err panics in main.rs.
Unwrapped(st, method) ==
    IF st.res = "Err"
    THEN [ st.hist EXCEPT !.err_from = method, !.panic_site = "main.rs" ]
    ELSE st.hist

\* Mode selection and construction (before the event loop runs).
Initialize ==
    /\ pc = "start"
    /\ \/ /\ xr_state' = "None"            \* no --xr argument: create_wgpu_state
          /\ init_result' = "Ok"
          /\ init_input' = init_input
          /\ pc' = "idle"
       \/ \E inp \in InitInputs :
             LET r == initialize_with_wgpu(inp)
             IN  /\ init_input' = inp
                 /\ init_result' = r
                 /\ xr_state' = IF r = "Ok" THEN "Some" ELSE "None"
                 /\ pc' = CASE r = "Ok" -> "idle"
                            [] r = "Err" -> "failed"
                            [] OTHER -> "panicked"
    /\ UNCHANGED << call, gpu, control_flow, session_running, swapchain, xr_frame_state,
                    post_frame_data, image_index, rt, log, hist >>

\* A mutant: pre_frame is called whether or not there is an XrState.
MainEventsCleared_without_xr_state ==
    /\ pc = "idle"
    /\ hist.ticks < MaxTicks
    /\ LET w == [ Working("None") EXCEPT !.hist.ticks = @ + 1 ]
       IN  \E should_render \in BOOLEAN :
           \E fail \in 0 .. pre_frame(w, 0, should_render).n :
              LET st == pre_frame(w, fail, should_render)
              IN  /\ Commit(st, Unwrapped(st, "pre_frame"))
                  /\ xr_frame_state' = IF st.res = "Some" THEN st.fs ELSE "None"
                  /\ pc' = IF st.res = "Err" THEN "panicked" ELSE "encode"
    /\ UNCHANGED << call, gpu, xr_state, init_result, init_input, control_flow >>

\* Event::MainEventsCleared, up to the call of pre_frame.
MainEventsCleared ==
    /\ pc = "idle"
    /\ hist.ticks < MaxTicks
    /\ LET w == [ Working("None") EXCEPT !.hist.ticks = @ + 1 ]
       IN  IF xr_state = "None"
           THEN /\ Commit(w, w.hist)
                /\ xr_frame_state' = "None"
                /\ pc' = "encode"
           ELSE \E should_render \in BOOLEAN :
                \E fail \in 0 .. pre_frame(w, 0, should_render).n :
                   LET st == pre_frame(w, fail, should_render)
                   IN  /\ Commit(st, Unwrapped(st, "pre_frame"))
                       /\ xr_frame_state' = IF st.res = "Some" THEN st.fs ELSE "None"
                       /\ pc' = IF st.res = "Err" THEN "panicked" ELSE "encode"
    /\ UNCHANGED << call, gpu, xr_state, init_result, init_input, control_flow >>

\* A mutant: the blit is recorded before the scene pass it reads.
EncodeFrame_blit_first ==
    /\ pc = "encode"
    /\ LET e == Note(Note(Note(Working(xr_frame_state), "get_current_texture", -1),
                          "blit_desktop", -1), "encode_scene", -1)
           st == Note(Note(e, "write_camera", -1), "upload_instances", -1)
       IN  Commit(st, st.hist)
    /\ gpu' = Animate(gpu, hist.ticks)
    /\ pc' = "post_frame"
    /\ UNCHANGED << call, xr_state, init_result, init_input, control_flow, xr_frame_state >>

\* The scene pass and the blit to the desktop surface, recorded in the encoder,
\* then the camera uniform (to_view_proj_matrices) and the instance upload.
EncodeFrame ==
    /\ pc = "encode"
    /\ LET e == Note(Note(Note(Working(xr_frame_state), "encode_scene", -1),
                          "get_current_texture", -1), "blit_desktop", -1)
           st == Note(Note(e, "write_camera", -1), "upload_instances", -1)
       IN  Commit(st, st.hist)
    /\ gpu' = Animate(gpu, hist.ticks)
    /\ pc' = "post_frame"
    /\ UNCHANGED << call, xr_state, init_result, init_input, control_flow, xr_frame_state >>

\* post_frame(..).unwrap() for a tick that has a frame state.  post_frame
\* records its blit in the encoder it is passed, so it runs before
\* encoder.finish(); everything else of the frame body keeps its place.
CallPostFrame ==
    /\ pc = "post_frame"
    /\ IF xr_frame_state = "None"
       THEN /\ pc' = "submit"
            /\ UNCHANGED << call, gpu, session_running, swapchain, post_frame_data, image_index,
                            rt, log, hist >>
       ELSE \E inp \in PostFrameInputs :
            \E fail \in 0 .. post_frame(Working(xr_frame_state), 0, inp).n :
               LET st == post_frame(Working(xr_frame_state), fail, inp)
               IN  /\ Commit(st, Unwrapped(st, "post_frame"))
                   /\ pc' = IF st.res = "Ok" THEN "submit" ELSE "panicked"
    /\ UNCHANGED << call, gpu, xr_state, init_result, init_input, control_flow, xr_frame_state >>

\* queue.submit(Some(encoder.finish())) and frame.present().
SubmitFrame ==
    /\ pc = "submit"
    /\ LET st == Note(Note(Working(xr_frame_state), "queue_submit", -1), "present", -1)
       IN  Commit(st, st.hist)
    /\ pc' = "post_queue_submit"
    /\ UNCHANGED << call, gpu, xr_state, init_result, init_input, control_flow, xr_frame_state >>

\* post_queue_submit after the submission, for a tick that has a frame state,
\* with the views post_frame returned.  An Err is either unwrapped or logged.
CallPostQueueSubmit ==
    /\ pc = "post_queue_submit"
    /\ IF xr_frame_state = "None"
       THEN /\ pc' = "done"
            /\ UNCHANGED << call, gpu, session_running, swapchain, post_frame_data, image_index,
                            rt, log, hist >>
       ELSE \E lenient \in BOOLEAN, policy \in { "unwrap", "log" } :
            \E fail \in 0 .. post_queue_submit(Working(xr_frame_state), 0, lenient).n :
               LET st == post_queue_submit(Working(xr_frame_state), fail, lenient)
                   h == IF st.res = "Err" /\ policy = "log"
                        THEN [ st.hist EXCEPT !.err_from = "post_queue_submit" ]
                        ELSE Unwrapped(st, "post_queue_submit")
               IN  /\ Commit(st, h)
                   /\ pc' = IF st.res = "Ok" \/ (st.res = "Err" /\ policy = "log")
                            THEN "done" ELSE "panicked"
    /\ UNCHANGED << call, gpu, xr_state, init_result, init_input, control_flow, xr_frame_state >>

\* The closure returns: the frame's locals (frame state, PostFrameData, encoder)
\* are dropped.
FrameDone ==
    /\ pc = "done"
    /\ pc' = "idle"
    /\ xr_frame_state' = "None"
    /\ post_frame_data' = EmptyPostFrameData
    /\ image_index' = -1
    /\ log' = << >>
    /\ UNCHANGED << call, gpu, xr_state, init_result, init_input, control_flow, session_running,
                    swapchain, rt, hist >>

\* A mutant: a resize also drops the compositor swapchain.
Resized_drops_swapchain ==
    /\ pc = "idle"
    /\ hist.events < MaxEvents
    /\ \E size \in Sizes :
          gpu' = [ gpu EXCEPT !.config = size, !.window = size ]
    /\ swapchain' = "None"
    /\ hist' = [ hist EXCEPT !.resizes = @ + 1, !.events = @ + 1 ]
    /\ UNCHANGED << call, pc, xr_state, init_result, init_input, control_flow, session_running,
                    xr_frame_state, post_frame_data, image_index, rt, log >>

\* WindowEvent::Resized(size)
Resized ==
    /\ pc = "idle"
    /\ hist.events < MaxEvents
    /\ \E size \in Sizes :
          LET config == [ gpu.config EXCEPT !.width = size.width, !.height = size.height ]
              depth == new_depth_texture(config, hist.resizes + 1)
              rt_tex == new_rt_texture(config, hist.resizes + 1)
          IN  gpu' = [ gpu EXCEPT
                         !.config = config,
                         !.depth_texture = depth,
                         !.rt_texture = rt_tex,
                         !.blit_state = BlitState_resize(@, rt_tex.id),
                         !.camera = PerspectiveCamera_resize(@, size),
                         !.window = size ]
    /\ hist' = [ hist EXCEPT !.resizes = @ + 1, !.events = @ + 1 ]
    /\ UNCHANGED << call, pc, xr_state, init_result, init_input, control_flow, session_running,
                    swapchain, xr_frame_state, post_frame_data, image_index, rt, log >>

\* WindowEvent::CloseRequested
CloseRequested ==
    /\ pc = "idle"
    /\ control_flow' = "Exit"
    /\ pc' = "exited"
    /\ UNCHANGED << call, gpu, xr_state, init_result, init_input, session_running, swapchain,
                    xr_frame_state, post_frame_data, image_index, rt, log, hist >>

\* The runtime queues an event: a session state change or another event.
RuntimeEvent ==
    /\ pc = "idle"
    /\ xr_state = "Some"
    /\ hist.events < MaxEvents
    /\ Len(rt.queue) < MaxQueue
    /\ \/ \E s \in RtSuccessors(rt.state, rt.running) :
             rt' = [ rt EXCEPT !.state = s, !.queue = Append(@, s) ]
       \/ \E e \in OtherEvents :
             rt' = [ rt EXCEPT !.queue = Append(@, e) ]
    /\ hist' = [ hist EXCEPT !.events = @ + 1 ]
    /\ UNCHANGED << call, gpu, pc, xr_state, init_result, init_input, control_flow, session_running,
                    swapchain, xr_frame_state, post_frame_data, image_index, log >>

Next ==
    \/ Initialize
    \/ MainEventsCleared
    \/ EncodeFrame
    \/ CallPostFrame
    \/ SubmitFrame
    \/ CallPostQueueSubmit
    \/ FrameDone
    \/ CloseRequested
    \/ Resized
    \/ RuntimeEvent

Spec == Init /\ [][Next]_vars

\* ------------------------------------------------ xr.rs: openxr_pose_to_glam
\* Components of the poses the conversion is applied to.
MaxCoord == 1

Coords == -MaxCoord .. MaxCoord

\* openxr::Posef values: a unit orientation and a position.
Poses ==
    { [ orientation |-> quat(x, y, z, w), position |-> p ] :
        x \in Coords, y \in Coords, z \in Coords, w \in Coords, p \in [ x : Coords, y : Coords, z : Coords ] }

UnitPoses ==
    { pose \in Poses :
        LET o == pose.orientation IN o.x * o.x + o.y * o.y + o.z * o.z + o.w * o.w = 1 }

\* A mutant: the orientation components are reordered but the half turn about
\* X is not applied.
openxr_pose_to_glam_no_half_turn(pose) ==
    LET o == pose.orientation
    IN  [ translation |-> vec3(-pose.position.x, pose.position.y, -pose.position.z),
          rotation |-> quat(o.w, o.z, o.y, o.x) ]

openxr_pose_to_glam(pose) ==
    LET o == pose.orientation
        rotation == quat_mul(from_rotation_x_180, quat(o.w, o.z, o.y, o.x))
        translation == vec3(-pose.position.x, pose.position.y, -pose.position.z)
    IN  [ translation |-> translation, rotation |-> rotation ]

\* PerspectiveCamera::to_view_proj_matrices_with_xr_views, the conversion of a
\* view's pose written out in the closure: xr_rotation and xr_translation.
xr_rotation_translation(pose) ==
    LET o == pose.orientation
        xr_rotation == quat_mul(from_rotation_x_180, quat(o.w, o.z, o.y, o.x))
        xr_translation == vec3(-pose.position.x, pose.position.y, -pose.position.z)
    IN  [ translation |-> xr_translation, rotation |-> xr_rotation ]

\* PerspectiveCamera::to_view_proj_matrices_with_xr_views: per view, the
\* arguments of Mat4::look_at_rh and the entries the projection is built from
\* (the product proj * view is a function of these and of nothing else).
to_view_proj_matrices_with_xr_views(camera, views) ==
    [ i \in DOMAIN views |->
        LET c == xr_rotation_translation(views[i].pose)
            from == vec3_add(camera.eye, c.translation)
        IN  [ view |-> [ eye |-> from,
                         center |-> vec3_add(from, quat_rotate(c.rotation, vec3(0, 0, 1))),
                         up |-> quat_rotate(c.rotation, vec3(0, 1, 0)) ],
              proj |-> [ fov |-> views[i].fov,
                         z_near |-> camera.z_near, z_far |-> camera.z_far ] ] ]

NoPose == [ translation |-> vec3(0, 0, 0), rotation |-> quat(0, 0, 0, 0) ]

PoseInit ==
    /\ ProgramInit
    /\ \E pose \in UnitPoses :
          call = [ f |-> "openxr_pose_to_glam", pose |-> pose, done |-> FALSE,
                   out |-> NoPose, view_done |-> FALSE, view_out |-> NoPose ]

\* The pose as a hand pose: locate_hand_pose passes it to openxr_pose_to_glam.
ConvertPose ==
    /\ ~call.done
    /\ call' = [ call EXCEPT !.out = openxr_pose_to_glam(call.pose), !.done = TRUE ]
    /\ UNCHANGED program_vars

\* The same pose as the pose of an eye view in the XR camera path.
ConvertViewPose ==
    /\ ~call.view_done
    /\ call' = [ call EXCEPT !.view_out = xr_rotation_translation(call.pose),
                             !.view_done = TRUE ]
    /\ UNCHANGED program_vars

PoseNext == ConvertPose \/ ConvertViewPose

PoseSpec == PoseInit /\ [][PoseNext]_vars

\* ------------------------------------------------------ wgsl.rs: preprocess
\* Lines per file and passes of the while loop that are followed.
MaxLen == 2
MaxPasses == 3

\* A string is the sequence of its pieces between "\n": a line of text (named
\* after the file it is written in), a line `#include <file>`, a line that has
\* "#include" somewhere but not as `#include ` at its start, or nothing.
Text(n) == [ kind |-> "text", name |-> n ]
Include(n) == [ kind |-> "include", name |-> n ]
Mention == [ kind |-> "mention", name |-> "" ]
Empty == [ kind |-> "", name |-> "" ]

Names == { "a", "b" }

FileLines(n) ==
    IF n = "a" THEN { Text("a"), Include("a"), Include("b") }
    ELSE { Text("b"), Include("a"), Mention }

Strings(alphabet) ==
    LET bodies == UNION { [ 1 .. k -> alphabet ] : k \in 1 .. MaxLen }
    IN  bodies \cup { body \o << Empty >> : body \in bodies }      \* with a final "\n"

\* HashMap<PathBuf, String>
FileMaps ==
    UNION { { files \in [ D -> Strings(FileLines("a")) \cup Strings(FileLines("b")) ] :
                \A n \in D : files[n] \in Strings(FileLines(n)) } : D \in SUBSET Names }

MainFiles == UNION { [ 1 .. k -> { Text("main"), Include("a"), Include("b") } ] : k \in 1 .. MaxLen }

\* str::contains("#include")
contains_include(s) == \E i \in DOMAIN s : s[i].kind \in { "include", "mention" }

\* str::lines(): a final empty piece (the text ends in "\n" or is empty) is no line
lines(s) ==
    IF s # << >> /\ s[Len(s)] = Empty THEN SubSeq(s, 1, Len(s) - 1) ELSE s

\* [&str]::join("\n")
RECURSIVE Concat(_)
Concat(elems) ==
    IF elems = << >> THEN << >>
    ELSE IF Len(elems) = 1 THEN elems[1]
    ELSE LET mid == Len(elems) \div 2
         IN  Concat(SubSeq(elems, 1, mid)) \o Concat(SubSeq(elems, mid + 1, Len(elems)))

join(elems) == IF elems = << >> THEN << Empty >> ELSE Concat(elems)

\* One iteration of the loop body: the lines mapped and joined, or the error of
\* files.get(..).context("failed to find file")?.
Pass(files, s) ==
    LET ls == lines(s)
    IN  IF \E i \in DOMAIN ls : ls[i].kind = "include" /\ ls[i].name \notin DOMAIN files
        THEN [ res |-> "Err", out |-> << >> ]
        ELSE [ res |-> "Ok",
               out |-> join([ i \in DOMAIN ls |->
                                IF ls[i].kind = "include" THEN files[ls[i].name]
                                ELSE << ls[i] >> ]) ]

\* A mutant: `if` for `while`, one pass.
preprocess_single_pass(files, current_file, passes) ==
    IF ~contains_include(current_file) THEN [ res |-> "Ok", out |-> current_file ]
    ELSE Pass(files, current_file)

\* preprocess: res is "Ok" with the preprocessed text, "Err", or "Loops" when
\* the loop is still running after `passes` iterations.
RECURSIVE preprocess(_, _, _)
preprocess(files, current_file, passes) ==
    IF ~contains_include(current_file) THEN [ res |-> "Ok", out |-> current_file ]
    ELSE IF passes = 0 THEN [ res |-> "Loops", out |-> << >> ]
    ELSE LET p == Pass(files, current_file)
         IN  IF p.res = "Err" THEN p ELSE preprocess(files, p.out, passes - 1)

WgslInit ==
    /\ ProgramInit
    /\ \E files \in FileMaps, main \in MainFiles :
          call = [ f |-> "preprocess", files |-> files, current_file |-> main,
                   done |-> FALSE, res |-> "", out |-> << >> ]

Preprocess ==
    /\ ~call.done
    /\ LET r == preprocess(call.files, call.current_file, MaxPasses)
       IN  call' = [ call EXCEPT !.res = r.res, !.out = r.out, !.done = TRUE ]
    /\ UNCHANGED program_vars

WgslNext == Preprocess

WgslSpec == WgslInit /\ [][WgslNext]_vars

\* ------------------------------------------------- colour formats of targets
\* Entries of the list surface.get_supported_formats(&adapter) returns.
MaxFormats == 2

WGPU_COLOR_FORMAT == "Rgba8UnormSrgb"

VK_COLOR_FORMAT == "R8G8B8A8_SRGB"

\* Formats a surface can report, the preferred one first.
SurfaceFormats == { "Bgra8UnormSrgb", "Rgba8UnormSrgb", "Bgra8Unorm", "Rgba8Unorm" }

SupportedFormatLists ==
    UNION { [ 1 .. n -> SurfaceFormats ] : n \in 1 .. MaxFormats }

FormatInit ==
    /\ ProgramInit
    /\ \E supported \in SupportedFormatLists :
          call = [ f |-> "formats", supported |-> supported,
                   config_format |-> "", rt_format |-> "", pipeline_target |-> "",
                   xr_create_format |-> "", xr_image_format |-> "", blits |-> {} ]

\* main: swapchain_format is the first supported format; the surface
\* configuration, the offscreen target and the blit pipeline are built with it.
ConfigureTargets ==
    /\ call.config_format = ""
    /\ LET swapchain_format == call.supported[1]
       IN  call' = [ call EXCEPT !.config_format = swapchain_format,
                                 !.rt_format = swapchain_format,
                                 !.pipeline_target = swapchain_format ]
    /\ UNCHANGED program_vars

\* post_frame, first rendered frame: the compositor swapchain is created with
\* VK_COLOR_FORMAT and its images are wrapped as WGPU_COLOR_FORMAT textures.
CreateSwapchainImages ==
    /\ call.config_format # ""
    /\ call.xr_image_format = ""
    /\ call' = [ call EXCEPT !.xr_create_format = VK_COLOR_FORMAT,
                             !.xr_image_format = WGPU_COLOR_FORMAT ]
    /\ UNCHANGED program_vars

\* BlitState::encode_draw_pass into a view of the desktop surface (which has
\* the configured format) or of a compositor swapchain image.
BlitInto ==
    /\ call.config_format # ""
    /\ \E target \in { "desktop" } \cup (IF call.xr_image_format # "" THEN { "xr" } ELSE {}) :
          call' = [ call EXCEPT !.blits = @ \cup
                      { [ target |-> target,
                          view_format |-> IF target = "desktop" THEN call.config_format
                                          ELSE call.xr_image_format,
                          pipeline_target |-> call.pipeline_target ] } ]
    /\ UNCHANGED program_vars

FormatNext == ConfigureTargets \/ CreateSwapchainImages \/ BlitInto

FormatSpec == FormatInit /\ [][FormatNext]_vars

\* ------------------------------------------ pre_frame on any event sequence
\* Session state changes queued before pre_frame is called.
MaxEventSeq == 5

EventSeqs == UNION { [ 1 .. n -> SessionEvents ] : n \in 0 .. MaxEventSeq }

IsSessionCall(entry) == entry.op \in { "session_begin", "session_end" }

EventInit ==
    /\ ProgramInit
    /\ \E events \in EventSeqs :
          call = [ f |-> "pre_frame", events |-> events, queue |-> events,
                   running |-> FALSE, calls |-> 0, session_calls |-> << >> ]

\* One call of pre_frame on the events still queued (it leaves the rest of the
\* queue for the next call when it returns early); the runtime lets every
\* call succeed.
PollEvents ==
    /\ call.f = "pre_frame"
    /\ call.queue # << >> \/ call.calls = 0
    /\ LET st == [ Working("None") EXCEPT !.running = call.running,
                                          !.rt.running = call.running,
                                          !.rt.queue = call.queue ]
           r == pre_frame(st, 0, TRUE)
       IN  call' = [ call EXCEPT !.queue = r.rt.queue,
                                 !.running = r.running,
                                 !.calls = @ + 1,
                                 !.session_calls = @ \o SelectSeq(r.log, IsSessionCall) ]
    /\ UNCHANGED program_vars

EventNext == PollEvents

EventSpec == EventInit /\ [][EventNext]_vars

\* ====================================================================== claims
Calls(op) == { i \in DOMAIN log : log[i].op = op }

FrameTimingCalls == Calls("frame_wait") \cup Calls("frame_begin")

\* pre_frame returned a frame state in this tick: its begin-frame call succeeded.
FrameBegunThisTick == xr_frame_state # "None"

\* The tick is over: the closure returned or the process panicked.
TickOver == pc \in { "done", "panicked" }

\* C1: every begin-frame call of pre_frame is followed by exactly one end-frame
\* call before the tick is over (and so before the next begin-frame call),
\* whether the frame is rendered, skipped or a later runtime call fails.
C1_BeginEndPaired ==
    (FrameBegunThisTick /\ TickOver) => Cardinality(Calls("frame_end")) = 1

\* C2: a frame whose frame state has should_render = false gets exactly one
\* end-frame call, with an empty layer list, before the next pre_frame: no
\* second end-frame call and no layer for it, swapchain or not.
C2_SkippedFrameEndedOnce ==
    xr_frame_state = "Skip" =>
        /\ \A i \in Calls("frame_end") : log[i].idx = 0
        /\ Cardinality(Calls("frame_end")) <= 1
        /\ pc \in { "submit", "post_queue_submit", "done" }
              => Cardinality(Calls("frame_end")) = 1

\* C2 witness: a skipped frame, ended once by post_frame, has reached
\* post_queue_submit while the compositor swapchain of an earlier frame exists.
C2_Witness ==
    /\ xr_frame_state = "Skip"
    /\ swapchain = "Some"
    /\ Calls("release_image") # {}
    /\ Cardinality(Calls("frame_end")) = 1

Lifecycle(e) == e \in { "READY", "STOPPING" }

\* C3: once READY has been polled the session has been begun exactly once,
\* however many frames follow; once the STOPPING after it has been polled too,
\* it has been begun exactly once and ended exactly once.
C3_BeginOnceEndOnce ==
    LET seen == SelectSeq(hist.polled, Lifecycle)
    IN  /\ seen = << "READY" >> => (hist.begins = 1 /\ hist.ends = 0)
        /\ seen = << "READY", "STOPPING" >> => (hist.begins = 1 /\ hist.ends = 1)

\* C3 witness: READY, at least two frames, STOPPING.
C3_Witness ==
    /\ SelectSeq(hist.polled, Lifecycle) = << "READY", "STOPPING" >>
    /\ hist.frames >= 2
    /\ pc # "panicked"

\* C4: frame-wait and begin-frame are called only after poll_event has
\* reported that no event is left; no event is queued when they are called.
C4_DrainedBeforeFrameTiming ==
    \A i \in FrameTimingCalls :
        /\ log[i].pending = 0
        /\ \E j \in Calls("poll_event") :
              /\ j < i
              /\ log[j].pending = 0
              /\ \A k \in Calls("poll_event") : k <= j

\* C4 witness: a pre_frame that found two events queued and went on to wait.
C4_Witness ==
    /\ \E j \in Calls("poll_event") : log[j].pending = 2
    /\ Calls("frame_wait") # {}

\* C5: when session_running is false after the drain, pre_frame returns no
\* frame state and calls neither frame-wait nor begin-frame; frame-wait,
\* begin-frame and end-frame are only called while session_running is true.
C5_FrameCallsOnlyWhileRunning ==
    /\ \A i \in FrameTimingCalls \cup Calls("frame_end") : log[i].run
    /\ ~session_running =>
          (xr_frame_state = "None" /\ FrameTimingCalls \cup Calls("frame_end") = {})

\* C5 witness: pre_frame drained the queue of a session that was running and
\* has been stopped, and returned no frame.
C5_Witness ==
    /\ pc = "encode"
    /\ xr_state = "Some"
    /\ ~session_running
    /\ hist.ends = 1
    /\ \E j \in Calls("poll_event") : log[j].pending = 0

\* C6: once EXITING or LOSS_PENDING has been polled, no tick issues frame-wait
\* or begin-frame any more.
C6_TerminalStateStopsFrames ==
    hist.exit_polled => FrameTimingCalls = {}

\* C7: a failing runtime call inside pre_frame, post_frame or post_queue_submit
\* never panics inside xr.rs: the method returns an error.
C7_RuntimeFailureReturnsError ==
    hist.panic_site # "xr.rs"

\* C8: after pre_frame or post_frame has returned an error the frame loop is
\* still alive.
C8_LoopContinuesAfterError ==
    hist.err_from \in { "pre_frame", "post_frame" } => pc # "panicked"

Negotiated == init_input.used /\ NegotiationFails(init_input)

\* C9 as claimed: a capability-negotiation failure makes initialize_with_wgpu
\* return a construction error.
C9_NegotiationFailureReturnsError ==
    Negotiated => init_result = "Err"

\* C9 as amended: a capability-negotiation failure never yields an XrState; the
\* construction ends in a panic of the failed check, or in the error of a
\* runtime call that failed before the check was reached.
C9_NegotiationFailureAbortsConstruction ==
    Negotiated =>
        /\ init_result \in { "Err", "Panic" }
        /\ init_result = "Err" => init_input.err_at # "none"
        /\ xr_state = "None"
        /\ pc \in { "failed", "panicked" }

\* C9 witness: the runtime's Vulkan version range excludes the target version
\* and construction panicked.
C9_Witness ==
    /\ init_input.used
    /\ init_input.ext
    /\ VersionLess(VkTargetVersion, init_input.min)
    /\ init_result = "Panic"

\* C10: the blit of a rendered XR frame targets the buffer at the index that
\* acquire_image returned, and is recorded after acquire_image and after the
\* wait_image (infinite timeout) that follows it.
C10_AcquireWaitBlit ==
    \A b \in Calls("blit_xr") :
        \E a \in Calls("acquire_image"), w \in Calls("wait_image") :
            /\ a < w /\ w < b
            /\ log[w].arg = "INFINITE"
            /\ log[a].idx \in 0 .. NumImages - 1
            /\ log[b].idx = log[a].idx
            /\ log[b].idx = image_index
            /\ Cardinality(Calls("acquire_image")) = 1

\* C10 witness: a rendered frame whose acquired image is not the first one.
C10_Witness ==
    \E b \in Calls("blit_xr") : log[b].idx = NumImages - 1 /\ NumImages > 1

C12_SwapchainCreatedOnce ==
    /\ hist.creates <= 1
    /\ swapchain = "Some" <=> hist.creates = 1
    /\ swapchain = "Some" => hist.frames >= 1

\* C12 witness: a frame rendered into the swapchain of an earlier frame, after
\* a window resize.
C12_Witness ==
    /\ swapchain = "Some"
    /\ hist.resizes >= 1
    /\ Calls("blit_xr") # {}
    /\ Calls("create_swapchain") = {}

\* C13: the colour and depth targets have the size of the last Resized event
\* (the size the surface is configured with) and 2 layers, every scene pass
\* draws into them, and the blit bind group holds the view of the current
\* colour target.
C13_TargetsFollowResize ==
    /\ gpu.config = gpu.window
    /\ \A t \in { gpu.rt_texture, gpu.depth_texture } :
          /\ t.width = gpu.window.width
          /\ t.height = gpu.window.height
          /\ t.layers = 2
    /\ gpu.blit_state.bind_group.view = gpu.rt_texture.id
    /\ \A i \in Calls("encode_scene") :
          log[i].src = gpu.rt_texture.id /\ log[i].depth = gpu.depth_texture.id
    /\ \A i \in Calls("blit_desktop") \cup Calls("blit_xr") :
          log[i].src = gpu.rt_texture.id

\* C13 witness: a scene pass and a blit recorded after a resize.
C13_Witness ==
    /\ hist.resizes >= 1
    /\ gpu.window # InitialSize
    /\ Calls("encode_scene") # {}
    /\ Calls("blit_desktop") # {}

\* The blit passes recorded in the tick: to the desktop surface and to the XR image.
Blits == Calls("blit_desktop") \cup Calls("blit_xr")

DesktopMode == xr_state = "None" /\ init_result = "Ok"

DesktopFrame ==
    << "encode_scene", "get_current_texture", "blit_desktop", "write_camera",
       "upload_instances", "queue_submit", "present" >>

C16_OneProjectionLayerTwoViews ==
    /\ \A e \in Calls("frame_end") :
          log[e].idx = 1 =>
             /\ Len(log[e].layers) = 1
             /\ Len(log[e].layers[1].views) = 2
             /\ post_frame_data.views = LocatedViews(hist.frames)
             /\ \A i \in 0 .. 1 :
                   LET v == log[e].layers[1].views[i + 1]
                   IN  /\ v.pose = post_frame_data.views[i + 1].pose
                       /\ v.fov = post_frame_data.views[i + 1].fov
                       /\ v.sub_image.image_array_index = i
                       /\ v.sub_image.swapchain = "handle"
                       /\ v.sub_image.image_rect.offset = [ x |-> 0, y |-> 0 ]
                       /\ v.sub_image.image_rect.extent = resolution
    /\ (pc = "done" /\ xr_frame_state = "Render") =>
          /\ Cardinality(Calls("frame_end")) = 1
          /\ \A e \in Calls("frame_end") : log[e].idx = 1

\* C16 witness: the second rendered frame has been ended with its layer.
C16_Witness ==
    /\ pc = "done"
    /\ xr_frame_state = "Render"
    /\ hist.frames >= 2
    /\ \E e \in Calls("frame_end") : log[e].idx = 1

\* The hand poses of PostFrameData and the is_active calls that returned true.
HandReturned(h) == IF h = 0 THEN post_frame_data.left_hand ELSE post_frame_data.right_hand

ActiveCalls(h) == { i \in Calls("is_active") : log[i].idx = h /\ log[i].arg = "active" }

PostFrameReturned ==
    xr_frame_state = "Render" /\ pc \in { "submit", "post_queue_submit", "done" }

\* C19: post_frame returns a hand pose exactly for the hands whose pose action
\* reported active in this frame; the space of a hand is located only after its
\* action reported active.
C19_HandPoseIffActive ==
    /\ \A l \in Calls("locate_space") : \E a \in ActiveCalls(log[l].idx) : a < l
    /\ \A h \in { 0, 1 } : HandReturned(h) => ActiveCalls(h) # {}
    /\ PostFrameReturned =>
          \A h \in { 0, 1 } :
             /\ HandReturned(h) <=> ActiveCalls(h) # {}
             /\ HandReturned(h) <=> \E l \in Calls("locate_space") : log[l].idx = h

\* C19 witness: post_frame returned with the left hand active and the right
\* hand inactive.
C19_Witness ==
    /\ PostFrameReturned
    /\ post_frame_data.left_hand /\ ~post_frame_data.right_hand
    /\ \E i \in Calls("is_active") : log[i].idx = 1 /\ log[i].arg = "inactive"

\* C20: in a rendered XR frame the views are located before the camera uniform
\* buffer of the frame is written.
C20_ViewsLocatedBeforeCameraWrite ==
    \A l \in Calls("locate_views") : \A w \in Calls("write_camera") : l < w

\* The no-op device pose, and what it is for a quaternion to rotate nothing.
IdentityPose == [ orientation |-> quat(0, 0, 0, 1), position |-> vec3(0, 0, 0) ]

IsIdentityRotation(q) ==
    \A v \in { vec3(1, 0, 0), vec3(0, 1, 0), vec3(0, 0, 1) } : quat_rotate(q, v) = v

\* C17: openxr_pose_to_glam maps the pose with identity orientation and zero
\* position to the identity rotation (every vector is left where it is) and
\* the zero translation.
C17_IdentityPoseToIdentity ==
    (call.f = "openxr_pose_to_glam" /\ call.done /\ call.pose = IdentityPose) =>
        /\ IsIdentityRotation(call.out.rotation)
        /\ call.out.translation = vec3(0, 0, 0)

\* C17 witness: the conversion has been applied to the identity pose.
C17_Witness ==
    /\ call.f = "openxr_pose_to_glam"
    /\ call.done
    /\ call.pose = IdentityPose

\* The include lines of a text replaced depth-first, the files a text reaches
\* through include lines, and the texts preprocess is meant for.
RECURSIVE Expand(_, _, _)
Expand(files, s, depth) ==
    IF s = << >> THEN << >>
    ELSE LET l == Head(s)
         IN  (IF l.kind = "include" /\ l.name \in DOMAIN files /\ depth > 0
              THEN Expand(files, files[l.name], depth - 1)
              ELSE << l >>) \o Expand(files, Tail(s), depth)

NonEmpty(s) == SelectSeq(s, LAMBDA l : l # Empty)

\* The files reachable from s through include lines, at most depth deep.
RECURSIVE Reach(_, _, _)
Reach(files, s, depth) ==
    LET direct == { s[i].name : i \in { j \in DOMAIN s : s[j].kind = "include" } }
    IN  IF depth = 0 THEN direct
        ELSE direct \cup UNION { Reach(files, files[n], depth - 1) : n \in direct \cap DOMAIN files }

WellFormedIncludes(files, s) ==
    LET reach == Reach(files, s, Cardinality(Names))
    IN  /\ reach \subseteq DOMAIN files
        /\ \A n \in reach : n \notin Reach(files, files[n], Cardinality(Names))
        /\ \A t \in { s } \cup { files[n] : n \in reach } :
              \A i \in DOMAIN t : t[i].kind # "mention"

\* C18: when preprocess returns a text, the text has no include line and its
\* lines are those of the file with every include line replaced, recursively,
\* by the lines of the named file, in order; it returns one whenever the
\* includes are acyclic, name files that are present, and "#include" occurs
\* in include lines only.
C18_IncludesExpanded ==
    (call.f = "preprocess" /\ call.done) =>
        /\ call.res = "Ok" =>
              /\ ~contains_include(call.out)
              /\ NonEmpty(call.out)
                   = NonEmpty(Expand(call.files, call.current_file, MaxPasses))
        /\ WellFormedIncludes(call.files, call.current_file) => call.res = "Ok"

\* C18 witness: the case of the crate's test, an include of a file that includes
\* another, followed by a line of text.
C18_Witness ==
    /\ call.f = "preprocess"
    /\ call.done
    /\ call.current_file = << Include("a"), Text("main") >>
    /\ "a" \in DOMAIN call.files /\ "b" \in DOMAIN call.files
    /\ call.files["a"] = << Include("b"), Text("a") >>
    /\ call.files["b"] = << Text("b") >>
    /\ call.out = << Text("b"), Text("a"), Text("main") >>

\* C21: at every queue submission the instance buffer holds the transforms of
\* the current instances array: the change of an instance pose in the frame
\* body is followed by upload_instances before the submission.
C21_InstanceBufferCurrentAtSubmit ==
    \A q \in Calls("queue_submit") :
        /\ gpu.instance_buffer = instances_to_data(gpu.instances)
        /\ \E u \in Calls("upload_instances") : u < q

\* C21 witness: a submitted frame whose body turned instances[0] away from the
\* rotation it was created with.
C21_Witness ==
    /\ Calls("queue_submit") # {}
    /\ gpu.instances[1][2] # Quat_IDENTITY
    /\ gpu.instance_buffer # instances_to_data(InitialInstances)

\* C22: the colour format of the compositor swapchain images equals that of
\* the offscreen target and the target format of the blit pipeline, so every
\* view the blit pipeline renders into has the pipeline's target format.
C22_BlitTargetsHavePipelineFormat ==
    call.f = "formats" =>
        /\ call.xr_image_format # "" =>
              /\ call.xr_image_format = call.rt_format
              /\ call.xr_image_format = call.pipeline_target
        /\ \A b \in call.blits : b.view_format = b.pipeline_target

\* C23 as stated: the blit sampler filters linearly for minification and
\* nearest for magnification, and a resize leaves the sampler as it was.
C23_LinearMinNearestMag ==
    /\ gpu.blit_state.sampler.min_filter = "Linear"
    /\ gpu.blit_state.sampler.mag_filter = "Nearest"
    /\ gpu.blit_state.bind_group.sampler = gpu.blit_state.sampler

\* C23: the blit sampler filters linearly for magnification and nearest for
\* minification, and this is unchanged by BlitState::resize: after any number
\* of resizes the sampler is the one BlitState::new created and the rebuilt
\* bind group holds it.
C23_LinearMagNearestMin ==
    /\ gpu.blit_state.sampler.mag_filter = "Linear"
    /\ gpu.blit_state.sampler.min_filter = "Nearest"
    /\ gpu.blit_state.sampler = BlitState_new(0).sampler
    /\ gpu.blit_state.bind_group.sampler = gpu.blit_state.sampler

\* C23 witness: the window was resized twice, so the bind group was rebuilt
\* twice, and a frame was blitted afterwards.
C23_Witness ==
    /\ hist.resizes >= 2
    /\ gpu.blit_state.bind_group.view = 2
    /\ Calls("blit_desktop") # {}

\* C24: the conversion applied to hand poses (openxr_pose_to_glam) and the one
\* applied to eye view poses in the XR camera path give the same translation
\* and the same rotation for every input pose.
C24_OnePoseConversion ==
    (call.f = "openxr_pose_to_glam" /\ call.done /\ call.view_done) =>
        /\ call.out.translation = call.view_out.translation
        /\ call.out.rotation = call.view_out.rotation
        /\ call.out = openxr_pose_to_glam(call.pose)

\* C24 witness: both conversions were applied to a pose that is turned about
\* an axis and displaced along every axis.
C24_Witness ==
    /\ call.f = "openxr_pose_to_glam"
    /\ call.done /\ call.view_done
    /\ call.pose.orientation = quat(0, 1, 0, 0)
    /\ call.pose.position = vec3(1, 1, -1)
    /\ call.view_out.translation = vec3(-1, 1, 1)

\* Views as locate_views returns them: a pose and a field of view (degrees).
SampleFov == [ angle_left |-> -45, angle_right |-> 45, angle_up |-> 45, angle_down |-> -45 ]

SampleViews ==
    { << [ pose |-> [ orientation |-> o, position |-> vec3(-1, 1, 0) ], fov |-> SampleFov ],
         [ pose |-> [ orientation |-> o, position |-> p ], fov |-> SampleFov ] >> :
        o \in { quat(0, 0, 0, 1), quat(0, 1, 0, 0), quat(1, 0, 0, 0) },
        p \in { vec3(1, 1, 0), vec3(0, 0, -1) } }

\* A step of the Resized handler.
ResizeStep == hist'.resizes = hist.resizes + 1

\* C25: a resize changes only the camera's aspect ratio: eye, target, up,
\* vertical FOV and the near/far planes are left unchanged, and the XR
\* view-projection result for given views is the same before and after it.
C25_ResizeChangesAspectRatioOnly ==
    [][ ResizeStep =>
          /\ gpu'.camera = [ gpu.camera EXCEPT !.aspect_ratio = gpu'.camera.aspect_ratio ]
          /\ gpu'.camera.aspect_ratio = << gpu'.window.width, gpu'.window.height >>
          /\ \A views \in SampleViews :
                to_view_proj_matrices_with_xr_views(gpu'.camera, views)
                  = to_view_proj_matrices_with_xr_views(gpu.camera, views) ]_vars

\* C25 witness: a resize that changed the aspect ratio after the frame body
\* had moved the eye away from where CameraState::new put it.
C25_Witness ==
    /\ hist.resizes >= 1
    /\ pc = "idle"
    /\ gpu.camera.eye # CameraState_new(InitialSize).eye
    /\ gpu.camera.aspect_ratio # CameraState_new(InitialSize).aspect_ratio
    /\ gpu.camera.aspect_ratio = << gpu.window.width, gpu.window.height >>

\* C26: every release_image call is preceded by an acquire_image of the same
\* frame that has not yet been released: no image is released without being
\* acquired, and no acquired image is still unreleased at the next acquire.
C26_ReleaseFollowsAcquire ==
    /\ \A r \in Calls("release_image") :
          /\ \E a \in Calls("acquire_image") : a < r
          /\ Cardinality(Calls("release_image")) = 1
    /\ rt.acquired <= 1

\* C27: whenever post_queue_submit builds the projection layer it has two
\* views: it never indexes views[0] or views[1] on the empty list post_frame
\* returns for a skipped frame.
C27_LayerBuiltFromTwoViews ==
    /\ hist.panic_site # "xr.rs index"
    /\ \A e \in Calls("frame_end") : log[e].idx = 1 => Len(post_frame_data.views) = VIEW_COUNT

\* pre_frame returned an error from the session call `op`: that call is the
\* last thing pre_frame did before main's unwrap ended the process.
SessionCallFailed(op) ==
    /\ pc = "panicked"
    /\ hist.err_from = "pre_frame"
    /\ log # << >>
    /\ log[Len(log)].op = op

\* C28: session_running changes only after the matching runtime call has
\* succeeded: it is the runtime's view of the session at all times; when
\* session begin fails on READY it stays false, when session end fails on
\* STOPPING it stays true, and in both cases pre_frame returns the error with
\* no frame-wait or begin-frame call.
C28_FlagFollowsSuccessfulCall ==
    /\ session_running = rt.running
    /\ SessionCallFailed("session_begin") =>
          /\ ~session_running
          /\ ~log[Len(log)].run
          /\ FrameTimingCalls = {}
    /\ SessionCallFailed("session_end") =>
          /\ session_running
          /\ log[Len(log)].run
          /\ FrameTimingCalls = {}

\* C28 witness: the session ran for a frame, then session end failed on
\* STOPPING and the flag is still set.
C28_Witness ==
    /\ SessionCallFailed("session_end")
    /\ session_running
    /\ hist.frames >= 1
    /\ hist.begins = 1

\* The event sequence follows the OpenXR session life cycle from IDLE, the
\* session running from the handling of READY to the handling of STOPPING.
RECURSIVE FollowsLifecycle(_, _, _)
FollowsLifecycle(s, running, events) ==
    \/ events = << >>
    \/ /\ Head(events) \in RtSuccessors(s, running)
       /\ FollowsLifecycle(Head(events),
                           CASE Head(events) = "READY" -> TRUE
                             [] Head(events) = "STOPPING" -> FALSE
                             [] OTHER -> running,
                           Tail(events))

\* Session begin and session end alternate, starting with begin, in the calls
\* pre_frame has made; run is session_running at the time of the call.
SessionCallsAlternate ==
    \A i \in DOMAIN call.session_calls :
        LET c == call.session_calls[i]
        IN  /\ c.op = (IF i % 2 = 1 THEN "session_begin" ELSE "session_end")
            /\ c.run = (c.op = "session_end")

\* C29 as stated: for any sequence of session state-change events, session
\* begin and session end strictly alternate starting with begin: begin is never
\* called while session_running is true, end never while it is false.
C29_AnySequenceAlternates ==
    call.f = "pre_frame" => SessionCallsAlternate

\* C29: for any sequence of session state-change events that follows the
\* session life cycle, session begin and session end strictly alternate
\* starting with begin: begin is never called while session_running is true,
\* end never while it is false.
C29_LifecycleSequenceAlternates ==
    (call.f = "pre_frame" /\ FollowsLifecycle("IDLE", FALSE, call.events)) =>
        SessionCallsAlternate

\* C29 witness: a session that was begun, ended and begun again.
C29_Witness ==
    /\ call.f = "pre_frame"
    /\ call.events = << "READY", "SYNCHRONIZED", "STOPPING", "IDLE", "READY" >>
    /\ call.queue = << >>
    /\ Len(call.session_calls) = 3
    /\ call.running

\* C30: preprocess terminates on every input: it returns the expanded text, or
\* an error when an included file is not in the file set, also when the text
\* has "#include" elsewhere than as a line prefix followed by a space and when
\* files include each other cyclically.
C30_PreprocessTerminates ==
    (call.f = "preprocess" /\ call.done) =>
        /\ call.res \in { "Ok", "Err" }
        /\ call.res = "Err" =>
              ~(Reach(call.files, call.current_file, MaxPasses) \subseteq DOMAIN call.files)

====
